---- MODULE Spec2Model ----
(***************************************************************************)
(* DSA-Coach backend services: the generation client (GeminiService) and   *)
(* the services that parse its text into typed records (CodeReviewService, *)
(* HintService, ProblemGeneratorService).  Text is modelled by TLA+        *)
(* strings, i.e. sequences of characters, and the Python string methods    *)
(* the code uses are defined on them character by character.               *)
(***************************************************************************)
EXTENDS Integers, Sequences, FiniteSets, TLC

(***************************************************************************)
(* Python str methods used by the services.                                *)
(***************************************************************************)

\* s[i] as a one-character string (1-based).
CharAt(s, i) == SubSeq(s, i, i)

\* s[i-1:] in Python terms: the suffix that starts at the 1-based position i.
Suffix(s, i) == SubSeq(s, i, Len(s))

\* Characters that str.strip() removes.
IsSpace(c) == c \in {" ", "\n", "\t"}

\* str.isdigit() on one character.
IsDigit(c) == c \in {"0", "1", "2", "3", "4", "5", "6", "7", "8", "9"}

DigitValue(c) ==
  CASE c = "0" -> 0 [] c = "1" -> 1 [] c = "2" -> 2 [] c = "3" -> 3
    [] c = "4" -> 4 [] c = "5" -> 5 [] c = "6" -> 6 [] c = "7" -> 7
    [] c = "8" -> 8 [] c = "9" -> 9

UpperAlphabet == "ABCDEFGHIJKLMNOPQRSTUVWXYZ"
LowerAlphabet == "abcdefghijklmnopqrstuvwxyz"

LowerChar(c) ==
  IF \E i \in 1..Len(UpperAlphabet) : CharAt(UpperAlphabet, i) = c
  THEN CharAt(LowerAlphabet, CHOOSE i \in 1..Len(UpperAlphabet) : CharAt(UpperAlphabet, i) = c)
  ELSE c

\* str.lower()
RECURSIVE Lower(_)
Lower(s) == IF s = "" THEN "" ELSE LowerChar(CharAt(s, 1)) \o Lower(Suffix(s, 2))

\* str.lstrip() / str.rstrip() / str.strip() with no argument.
RECURSIVE LStrip(_)
LStrip(s) ==
  IF s = "" THEN ""
  ELSE IF IsSpace(CharAt(s, 1)) THEN LStrip(Suffix(s, 2)) ELSE s

RECURSIVE RStrip(_)
RStrip(s) ==
  IF s = "" THEN ""
  ELSE IF IsSpace(CharAt(s, Len(s))) THEN RStrip(SubSeq(s, 1, Len(s) - 1)) ELSE s

Strip(s) == RStrip(LStrip(s))

\* str.startswith(p)
StartsWith(s, p) == Len(p) <= Len(s) /\ SubSeq(s, 1, Len(p)) = p

\* str.find(sub, start) with a 0-based start, returned 1-based; 0 when absent.
Find(s, sub, from) ==
  LET hits == {i \in (from + 1)..(Len(s) - Len(sub) + 1) : SubSeq(s, i, i + Len(sub) - 1) = sub}
  IN IF hits = {} THEN 0 ELSE CHOOSE i \in hits : \A j \in hits : i <= j

\* sub in s
Contains(s, sub) == Find(s, sub, 0) # 0

\* str.split(sep) for a non-empty separator.
RECURSIVE Split(_, _)
Split(s, sep) ==
  LET i == Find(s, sep, 0)
  IN IF i = 0 THEN <<s>>
     ELSE <<SubSeq(s, 1, i - 1)>> \o Split(Suffix(s, i + Len(sep)), sep)

\* str.split(':', 1)[1]: the text after the first colon (the line has one).
AfterColon(s) == Suffix(s, Find(s, ":", 0) + 1)

\* '\n'.join(lines)
RECURSIVE JoinLines(_)
JoinLines(lines) ==
  IF lines = <<>> THEN ""
  ELSE IF Len(lines) = 1 THEN lines[1]
  ELSE lines[1] \o "\n" \o JoinLines(Tail(lines))

\* ''.join(filter(str.isdigit, s))
RECURSIVE DigitsOf(_)
DigitsOf(s) ==
  IF s = "" THEN ""
  ELSE (IF IsDigit(CharAt(s, 1)) THEN CharAt(s, 1) ELSE "") \o DigitsOf(Suffix(s, 2))

\* int(d) for a non-empty string of decimal digits.
RECURSIVE ParseInt(_)
ParseInt(d) ==
  IF d = "" THEN 0
  ELSE 10 * ParseInt(SubSeq(d, 1, Len(d) - 1)) + DigitValue(CharAt(d, Len(d)))

\* any(char.isdigit() for char in s)
HasDigit(s) == \E i \in 1..Len(s) : IsDigit(CharAt(s, i))

\* str(n) for a natural number.
RECURSIVE Str(_)
Str(n) ==
  IF n < 10 THEN CharAt("0123456789", n + 1)
  ELSE Str(n \div 10) \o CharAt("0123456789", (n % 10) + 1)

(***************************************************************************)
(* Program constants.                                                      *)
(***************************************************************************)

MAX_RETRIES == 3
RETRY_DELAY == 1
max_hint_levels == 4

(***************************************************************************)
(* Bounds of the model.                                                    *)
(***************************************************************************)

\* A reply of the generation capability has at most this many lines.
MaxLines == 3

\* get_hint is called with a current level from -LevelSpan up to
\* max_hint_levels + LevelSpan.
LevelSpan == 2

\* generate_problems is asked for 1..MaxVariations variations (the request
\* model allows 1..10).
MaxVariations == 3

\* The number of calls in progress at the same time.
NumCallers == 2

\* The conversation history has at most this many entries.
MaxHistory == 4

(***************************************************************************)
(* The generation capability (genai.GenerativeModel.generate_content) is   *)
(* external: each invocation either raises, or returns no usable response  *)
(* (None, or an object without text), or returns a response with a text.   *)
(***************************************************************************)

ServiceErrors == {"503 unavailable", "429 quota exceeded"}

\* The lines a reply is made of, per operation.
GenericLines == {"", " ", "ok", " Use a heap. "}

ReviewReplyLines ==
  {"", "1. OVERALL ANALYSIS:", "Correctness Score: 9/10", "Correctness: 8",
   "Style rating 0", "Time Complexity: O(n^2)", "Issues Found", "- Off by one"}

ProblemReplyLines ==
  {"Problem", "Statement: Do Y", "Statement:", "and Z", "Concept: DP"}

ReplyLines(o) ==
  IF o = "review" THEN ReviewReplyLines
  ELSE IF o = "problems" THEN ProblemReplyLines
  ELSE GenericLines

\* Further replies: a list section with a wrapped item, a review with two
\* sections, overall sections with a score of 15, numbered lines that name
\* no section, a list item that begins with a digit, two problem blocks of
\* which the second has a title only, a statement followed by a line that
\* starts with a dash, and a description label after a dash.
ReviewScenarioTexts ==
  {"Issues Found\n- a\n- b\nc",
   "Issues Found\nx\n1. y\n-\n* z\n-\nw w\n- y",
   "1. OVERALL ANALYSIS:\nCorrectness: 8\nIssues Found\n- Off by one",
   "1. OVERALL ANALYSIS:\nCorrectness Score: 15",
   "1. OVERALL ANALYSIS:\nCorrectness: 8\nCorrectness Score: 15",
   "1. OVERALL ANALYSIS:\nCorrectness Score: 15\nStyle rating 0",
   "2. Rename\nIssues Found\n1. Check bounds",
   "Issues Found\n- 3 loops"}

ProblemScenarioTexts ==
  {"Problem\nTitle: X\nDifficulty: Hard\nStatement: Do Y\nProblem\nTitle: Z",
   "Problem\nStatement: Do Y\n- in O(n)",
   "Problem\n- Description: Do Y"}

ScenarioTexts(o) ==
  IF o = "review" THEN ReviewScenarioTexts
  ELSE IF o = "problems" THEN ProblemScenarioTexts
  ELSE {}

\* Every text of 1..MaxLines lines over the operation's lines, '\n'-joined,
\* and the longer replies.
ReplyTexts(o) ==
  {JoinLines(ls) : ls \in UNION {[1..k -> ReplyLines(o)] : k \in 1..MaxLines}}
    \cup ScenarioTexts(o)

Replies(o) ==
  {[kind |-> "error", text |-> "", msg |-> m] : m \in ServiceErrors}
    \cup {[kind |-> "none", text |-> "", msg |-> ""]}
    \cup {[kind |-> "text", text |-> t, msg |-> ""] : t \in ReplyTexts(o)}

NoReply == [kind |-> "unset", text |-> "", msg |-> ""]

(***************************************************************************)
(* CodeReviewService: parsing of the review text.                          *)
(***************************************************************************)

\* The module text is ASCII: this character stands for the bullet U+2022.
Bullet == "@"

\* The CodeAnalysis _parse_review_response starts from.
DefaultAnalysis ==
  [correctness_score |-> 7, time_complexity |-> "O(n)", space_complexity |-> "O(1)",
   style_rating |-> 7, summary |-> "Code analysis completed"]

DefaultSections ==
  [overall |-> DefaultAnalysis, issues |-> <<>>, optimizations |-> <<>>,
   alternatives |-> <<>>]

\* Mutant: the lower bound of the range check is missing.
ScoreInRange_NoLowerBound(score) == score <= 10

\* if 1 <= score <= 10
\* Mutant: the range check has no upper bound.
ScoreInRange_NoUpperBound(score) == 1 <= score

ScoreInRange(score) == 1 <= score /\ score <= 10

\* The score a correctness or style line sets, given the score so far.
ExtractScore(line, prior) ==
  LET score == ParseInt(DigitsOf(line))
  IN IF ScoreInRange(score) THEN score ELSE prior

\* The O() notation a complexity line sets, given the notation so far.
ExtractComplexity(line, prior) ==
  LET start == Find(Lower(line), "o(", 0)
      end == IF start = 0 THEN 0 ELSE Find(line, ")", start - 1)
  IN IF start # 0 /\ end # 0 THEN SubSeq(line, start, end) ELSE prior

\* One iteration of the loop over the lines of the overall section.
OverallLine(analysis, line) ==
  LET line_lower == Lower(line)
  IN IF Contains(line_lower, "correctness") /\ HasDigit(line)
     THEN [analysis EXCEPT !.correctness_score = ExtractScore(line, @)]
     ELSE IF Contains(line_lower, "style") /\ HasDigit(line)
     THEN [analysis EXCEPT !.style_rating = ExtractScore(line, @)]
     ELSE IF Contains(line_lower, "time complexity")
     THEN [analysis EXCEPT !.time_complexity = ExtractComplexity(line, @)]
     ELSE IF Contains(line_lower, "space complexity")
     THEN [analysis EXCEPT !.space_complexity = ExtractComplexity(line, @)]
     ELSE analysis

RECURSIVE OverallLines(_, _)
OverallLines(analysis, lines) ==
  IF lines = <<>> THEN analysis
  ELSE OverallLines(OverallLine(analysis, Head(lines)), Tail(lines))

\* content[:200] + "..." if len(content) > 200 else content
Summary(content) ==
  IF Len(content) > 200 THEN SubSeq(content, 1, 200) \o "..." ELSE content

\* _parse_overall_section
ParseOverallSection(content) ==
  OverallLines([DefaultAnalysis EXCEPT !.summary = Summary(content)],
               Split(content, "\n"))

\* line.startswith(('-', bullet, '*')) or
\* (line and line[0].isdigit() and '.' in line[:3])
StartsItem(line) ==
  \/ StartsWith(line, "-") \/ StartsWith(line, Bullet) \/ StartsWith(line, "*")
  \/ (line # "" /\ IsDigit(CharAt(line, 1)) /\ Contains(SubSeq(line, 1, 3), "."))

\* line.lstrip('-<bullet>*0123456789. ')
RECURSIVE LStripMarker(_)
LStripMarker(s) ==
  IF s = "" THEN ""
  ELSE IF CharAt(s, 1) \in {"-", Bullet, "*", ".", " "} \/ IsDigit(CharAt(s, 1))
  THEN LStripMarker(Suffix(s, 2))
  ELSE s

\* Mutant: a line without a marker closes the open item and opens its own.
ListLine_NoMerge(st, raw) ==
  LET line == Strip(raw)
  IN IF StartsItem(line) \/ line # ""
     THEN [items |-> IF st.current_item # ""
                     THEN Append(st.items, Strip(st.current_item)) ELSE st.items,
           current_item |-> LStripMarker(line)]
     ELSE st

\* One iteration of the loop of _parse_list_section; st is (items, current_item).
ListLine(st, raw) ==
  LET line == Strip(raw)
  IN IF StartsItem(line)
     THEN [items |-> IF st.current_item # ""
                     THEN Append(st.items, Strip(st.current_item)) ELSE st.items,
           current_item |-> LStripMarker(line)]
     ELSE IF line # "" /\ st.current_item # ""
     THEN [st EXCEPT !.current_item = @ \o " " \o line]
     ELSE IF line # "" /\ st.current_item = ""
     THEN [st EXCEPT !.current_item = line]
     ELSE st

RECURSIVE ListLines(_, _)
ListLines(st, lines) ==
  IF lines = <<>> THEN st ELSE ListLines(ListLine(st, Head(lines)), Tail(lines))

\* [item for item in items if item]
RECURSIVE NonEmptyItems(_)
NonEmptyItems(items) ==
  IF items = <<>> THEN <<>>
  ELSE (IF Head(items) # "" THEN <<Head(items)>> ELSE <<>>) \o NonEmptyItems(Tail(items))

\* _parse_list_section
ParseListSection(content) ==
  LET st == ListLines([items |-> <<>>, current_item |-> ""], Split(content, "\n"))
      items == IF st.current_item # ""
               THEN Append(st.items, Strip(st.current_item)) ELSE st.items
  IN NonEmptyItems(items)

\* _process_section_content
ProcessSectionContent(section, content) ==
  IF section = "overall" THEN ParseOverallSection(JoinLines(content))
  ELSE ParseListSection(JoinLines(content))

\* Mutant: the number of a section is enough to open it.
HeaderOf_MarkerTriggers(line) ==
  LET line_lower == Lower(line)
  IN IF Contains(line_lower, "overall analysis") \/ Contains(line, "1.")
     THEN "overall"
     ELSE IF Contains(line_lower, "issues found") \/ Contains(line, "2.")
     THEN "issues"
     ELSE IF Contains(line_lower, "optimizations") \/ Contains(line, "3.")
     THEN "optimizations"
     ELSE IF Contains(line_lower, "alternative") \/ Contains(line, "4.")
     THEN "alternatives"
     ELSE ""

\* The section a line is the header of ("" for none), in the order of the
\* if/elif chain; "a or b and c" is Python's "a or (b and c)".
HeaderOf(line) ==
  LET line_lower == Lower(line)
  IN IF Contains(line_lower, "overall analysis")
          \/ (Contains(line, "1.") /\ Contains(line_lower, "overall"))
     THEN "overall"
     ELSE IF Contains(line_lower, "issues found")
          \/ (Contains(line, "2.") /\ Contains(line_lower, "issues"))
     THEN "issues"
     ELSE IF Contains(line_lower, "optimizations")
          \/ (Contains(line, "3.") /\ Contains(line_lower, "optimization"))
     THEN "optimizations"
     ELSE IF Contains(line_lower, "alternative")
          \/ (Contains(line, "4.") /\ Contains(line_lower, "alternative"))
     THEN "alternatives"
     ELSE ""

\* if current_section and current_content: sections[current_section] = ...
Commit(st) ==
  IF st.current_section # "" /\ st.current_content # <<>>
  THEN [st.sections EXCEPT
          ![st.current_section] = ProcessSectionContent(st.current_section, st.current_content)]
  ELSE st.sections

\* Mutant: a header opens the new section without storing the open one.
ReviewLine_NoCommitOnHeader(st, raw) ==
  LET line == Strip(raw)
      header == HeaderOf(line)
  IN IF header # ""
     THEN [sections |-> st.sections, current_section |-> header, current_content |-> <<>>]
     ELSE IF line # "" /\ st.current_section # ""
     THEN [st EXCEPT !.current_content = Append(@, line)]
     ELSE st

\* Mutant: a header line is kept as the first line of the section it opens.
ReviewLine_HeaderKept(st, raw) ==
  LET line == Strip(raw)
      header == HeaderOf(line)
  IN IF header # ""
     THEN [sections |-> Commit(st), current_section |-> header, current_content |-> <<line>>]
     ELSE IF line # "" /\ st.current_section # ""
     THEN [st EXCEPT !.current_content = Append(@, line)]
     ELSE st

\* One iteration of the loop of _parse_review_response.
ReviewLine(st, raw) ==
  LET line == Strip(raw)
      header == HeaderOf(line)
  IN IF header # ""
     THEN [sections |-> Commit(st), current_section |-> header, current_content |-> <<>>]
     ELSE IF line # "" /\ st.current_section # ""
     THEN [st EXCEPT !.current_content = Append(@, line)]
     ELSE st

RECURSIVE ReviewLines(_, _)
ReviewLines(st, lines) ==
  IF lines = <<>> THEN st ELSE ReviewLines(ReviewLine(st, Head(lines)), Tail(lines))

\* Mutant: the text before the first header is read as the overall section.
ParseReviewResponse_PreambleIsOverall(response) ==
  Commit(ReviewLines([sections |-> DefaultSections, current_section |-> "overall",
                      current_content |-> <<>>],
                     Split(response, "\n")))

\* _parse_review_response
ParseReviewResponse(response) ==
  Commit(ReviewLines([sections |-> DefaultSections, current_section |-> "",
                      current_content |-> <<>>],
                     Split(response, "\n")))

\* _get_fallback_review
FallbackReview ==
  [overall |-> [correctness_score |-> 6, time_complexity |-> "Unable to analyze",
                space_complexity |-> "Unable to analyze", style_rating |-> 6,
                summary |-> "Code review service temporarily unavailable. Please try again later."],
   issues |-> <<"Unable to analyze issues at this time">>,
   optimizations |-> <<"Please resubmit your code for optimization suggestions">>,
   alternatives |-> <<"Alternative approaches analysis unavailable">>]

\* Mutant: review_code without its except branch.
ReviewOutcome_Propagates(g) ==
  IF g.kind = "returned"
  THEN [kind |-> "returned", source |-> "parsed", value |-> ParseReviewResponse(g.text)]
  ELSE [kind |-> "raised", source |-> "none", error |-> g.error]

\* Mutant: a response in which no section was found gets the fallback review.
ReviewOutcome_FallbackWhenNoSection(g) ==
  IF g.kind = "returned" /\ ParseReviewResponse(g.text) # DefaultSections
  THEN [kind |-> "returned", source |-> "parsed", value |-> ParseReviewResponse(g.text)]
  ELSE [kind |-> "returned", source |-> "fallback", value |-> FallbackReview]

\* review_code, given how generate_response ended: the try body or the
\* except branch.
ReviewOutcome(g) ==
  IF g.kind = "returned"
  THEN [kind |-> "returned", source |-> "parsed", value |-> ParseReviewResponse(g.text)]
  ELSE [kind |-> "returned", source |-> "fallback", value |-> FallbackReview]

(***************************************************************************)
(* HintService.  Timestamps (datetime.now()) are left out of the records.  *)
(***************************************************************************)

\* _get_hint_type
GetHintType(level) ==
  CASE level = 1 -> "clarifying"
    [] level = 2 -> "direction"
    [] level = 3 -> "structure"
    [] level = 4 -> "implementation"
    [] OTHER -> "general"

\* fallback_hints.get(level, ...)
FallbackHintContent(level) ==
  CASE level = 1 -> "Let's start by understanding the problem better. What are the inputs and expected outputs? What constraints should we consider?"
    [] level = 2 -> "Think about what data structures or algorithms might be helpful here. Consider the time complexity requirements."
    [] level = 3 -> "Try breaking the problem into smaller steps. What would be the main phases of your solution?"
    [] level = 4 -> "Focus on implementing one part at a time. Start with the basic logic and handle edge cases later."
    [] level = 0 -> "Based on your approach, you're thinking in the right direction. What specific part would you like to explore further?"
    [] level = -1 -> "It's okay to feel stuck! Try starting with a simpler version of this problem. What would be the most basic case you could solve?"
    [] OTHER -> "Keep thinking through the problem step by step. You're making progress!"

\* Mutant: the fallback offers a next hint at the last level too.
FallbackHint_NextAtLastLevel(level, hint_type) ==
  [hint |-> [level |-> level, content |-> FallbackHintContent(level),
             hint_type |-> IF hint_type # "" THEN hint_type ELSE GetHintType(level)],
   next_available |-> level <= max_hint_levels,
   total_levels |-> max_hint_levels]

\* _get_fallback_hint(level, hint_type); hint_type "" is None.
FallbackHint(level, hint_type) ==
  [hint |-> [level |-> level, content |-> FallbackHintContent(level),
             hint_type |-> IF hint_type # "" THEN hint_type ELSE GetHintType(level)],
   next_available |-> level < max_hint_levels,
   total_levels |-> max_hint_levels]

\* if next_level > self.max_hint_levels: raise ValueError(...)
LevelRejected(next_level) == next_level > max_hint_levels

\* get_hint once the level check has raised: the except branch.
HintRejectedOutcome(current_hint_level) ==
  [kind |-> "returned", source |-> "fallback",
   value |-> FallbackHint(current_hint_level + 1, "")]

\* Mutant: the fallback hint is built for the current level, not the next.
HintOutcome_FallbackAtCurrentLevel(current_hint_level, g) ==
  LET next_level == current_hint_level + 1
  IN IF g.kind = "returned"
     THEN [kind |-> "returned", source |-> "generated",
           value |-> [hint |-> [level |-> next_level, content |-> g.text,
                                hint_type |-> GetHintType(next_level)],
                      next_available |-> next_level < max_hint_levels,
                      total_levels |-> max_hint_levels]]
     ELSE [kind |-> "returned", source |-> "fallback",
           value |-> FallbackHint(current_hint_level, "")]

\* get_hint, given how generate_response ended.
HintOutcome(current_hint_level, g) ==
  LET next_level == current_hint_level + 1
  IN IF g.kind = "returned"
     THEN [kind |-> "returned", source |-> "generated",
           value |-> [hint |-> [level |-> next_level, content |-> g.text,
                                hint_type |-> GetHintType(next_level)],
                      next_available |-> next_level < max_hint_levels,
                      total_levels |-> max_hint_levels]]
     ELSE [kind |-> "returned", source |-> "fallback",
           value |-> FallbackHint(current_hint_level + 1, "")]

\* get_personalized_hint (level 0) and get_stuck_help (level -1), given how
\* generate_response ended.
SpecialHintOutcome(level, hint_type, g) ==
  IF g.kind = "returned"
  THEN [kind |-> "returned", source |-> "generated",
        value |-> [hint |-> [level |-> level, content |-> g.text, hint_type |-> hint_type],
                   next_available |-> TRUE,
                   total_levels |-> max_hint_levels]]
  ELSE [kind |-> "returned", source |-> "fallback", value |-> FallbackHint(level, hint_type)]

(***************************************************************************)
(* ProblemGeneratorService.  An Optional[str] is a sequence of at most one *)
(* string.                                                                 *)
(***************************************************************************)

StartsWithAny(s, prefixes) == \E q \in prefixes : StartsWith(s, q)

\* f"Practice problem {problem_num} focusing on {core_concept}"
Placeholder(problem_num, core_concept) ==
  "Practice problem " \o Str(problem_num) \o " focusing on " \o core_concept

\* Mutant: the extracted statement is used as it is.
StatementOrPlaceholder_Raw(statement, problem_num, core_concept) == statement

\* statement or f"Practice problem ..."
StatementOrPlaceholder(statement, problem_num, core_concept) ==
  IF statement # "" THEN statement ELSE Placeholder(problem_num, core_concept)

\* The difficulty a difficulty line sets.
ParseDifficulty(diff_text) ==
  IF Contains(diff_text, "easy") THEN "Easy"
  ELSE IF Contains(diff_text, "hard") THEN "Hard"
  ELSE "Medium"

\* The locals of _parse_problem_section before its loop.
ProblemDefaults(problem_num) ==
  [title |-> "Generated Problem " \o Str(problem_num), statement |-> "",
   difficulty |-> "Medium", core_concept |-> "Algorithm Practice",
   context |-> "Generated variation", estimated_time |-> "15-20 min",
   complexity |-> "O(n)", approach_hint |-> <<>>, current_field |-> ""]

\* Mutant: a line that starts with a dash continues the statement too.
ProblemLine_DashContinues(f, line) ==
  LET line_lower == Lower(line)
      value == Strip(AfterColon(line))
  IN IF StartsWithAny(line_lower, {"title:", "- title:"})
     THEN [f EXCEPT !.title = value, !.current_field = "title"]
     ELSE IF StartsWithAny(line_lower, {"difficulty:", "- difficulty:"})
     THEN [f EXCEPT !.difficulty = ParseDifficulty(Lower(value)),
                    !.current_field = "difficulty"]
     ELSE IF StartsWithAny(line_lower, {"statement:", "- statement:", "description:"})
     THEN [f EXCEPT !.statement = value, !.current_field = "statement"]
     ELSE IF StartsWithAny(line_lower, {"core concept:", "- core concept:", "concept:"})
     THEN [f EXCEPT !.core_concept = value, !.current_field = "concept"]
     ELSE IF StartsWithAny(line_lower, {"context:", "- context:"})
     THEN [f EXCEPT !.context = value, !.current_field = "context"]
     ELSE IF StartsWithAny(line_lower, {"estimated time:", "- estimated time:", "time:"})
     THEN [f EXCEPT !.estimated_time = value, !.current_field = "time"]
     ELSE IF StartsWithAny(line_lower, {"complexity:", "- complexity:"})
     THEN [f EXCEPT !.complexity = value, !.current_field = "complexity"]
     ELSE IF StartsWithAny(line_lower, {"hint:", "- hint:", "approach hint:"})
     THEN [f EXCEPT !.approach_hint = <<value>>, !.current_field = "hint"]
     ELSE IF f.current_field = "statement"
     THEN [f EXCEPT !.statement = @ \o " " \o line]
     ELSE f

\* One iteration of the loop of _parse_problem_section.
ProblemLine(f, line) ==
  LET line_lower == Lower(line)
      value == Strip(AfterColon(line))
  IN IF StartsWithAny(line_lower, {"title:", "- title:"})
     THEN [f EXCEPT !.title = value, !.current_field = "title"]
     ELSE IF StartsWithAny(line_lower, {"difficulty:", "- difficulty:"})
     THEN [f EXCEPT !.difficulty = ParseDifficulty(Lower(value)),
                    !.current_field = "difficulty"]
     ELSE IF StartsWithAny(line_lower, {"statement:", "- statement:", "description:"})
     THEN [f EXCEPT !.statement = value, !.current_field = "statement"]
     ELSE IF StartsWithAny(line_lower, {"core concept:", "- core concept:", "concept:"})
     THEN [f EXCEPT !.core_concept = value, !.current_field = "concept"]
     ELSE IF StartsWithAny(line_lower, {"context:", "- context:"})
     THEN [f EXCEPT !.context = value, !.current_field = "context"]
     ELSE IF StartsWithAny(line_lower, {"estimated time:", "- estimated time:", "time:"})
     THEN [f EXCEPT !.estimated_time = value, !.current_field = "time"]
     ELSE IF StartsWithAny(line_lower, {"complexity:", "- complexity:"})
     THEN [f EXCEPT !.complexity = value, !.current_field = "complexity"]
     ELSE IF StartsWithAny(line_lower, {"hint:", "- hint:", "approach hint:"})
     THEN [f EXCEPT !.approach_hint = <<value>>, !.current_field = "hint"]
     ELSE IF f.current_field = "statement"
             /\ ~StartsWithAny(line, {"-", "title:", "difficulty:"})
     THEN [f EXCEPT !.statement = @ \o " " \o line]
     ELSE f

RECURSIVE ProblemLines(_, _)
ProblemLines(f, lines) ==
  IF lines = <<>> THEN f ELSE ProblemLines(ProblemLine(f, Head(lines)), Tail(lines))

\* [line.strip() for line in section.split('\n') if line.strip()]
RECURSIVE StrippedLines(_)
StrippedLines(lines) ==
  IF lines = <<>> THEN <<>>
  ELSE (IF Strip(Head(lines)) # "" THEN <<Strip(Head(lines))>> ELSE <<>>)
         \o StrippedLines(Tail(lines))

\* _parse_problem_section
ParseProblemSection(section, problem_num) ==
  LET f == ProblemLines(ProblemDefaults(problem_num), StrippedLines(Split(section, "\n")))
  IN [title |-> f.title,
      statement |-> StatementOrPlaceholder(f.statement, problem_num, f.core_concept),
      difficulty |-> f.difficulty, core_concept |-> f.core_concept,
      context |-> f.context, estimated_time |-> f.estimated_time,
      complexity |-> f.complexity, approach_hint |-> f.approach_hint]

\* Mutant: the sections are numbered from 0.
ParseGeneratedProblems_ZeroBased(response) ==
  LET sections == Split(response, "Problem")
  IN [i \in 1..(Len(sections) - 1) |-> ParseProblemSection(sections[i + 1], i - 1)]

\* _parse_generated_problems: one problem per section after the first.
ParseGeneratedProblems(response) ==
  LET sections == Split(response, "Problem")
  IN [i \in 1..(Len(sections) - 1) |-> ParseProblemSection(sections[i + 1], i)]

FallbackProblemData ==
  << [title |-> "Array Sum Variation",
      statement |-> "Find the maximum sum of any contiguous subarray in the given array.",
      core_concept |-> "Dynamic Programming", context |-> "Classic subarray problem"],
     [title |-> "Tree Traversal Challenge",
      statement |-> "Implement an iterative in-order traversal of a binary tree.",
      core_concept |-> "Tree Traversal", context |-> "Iterative approach"],
     [title |-> "Hash Table Lookup",
      statement |-> "Find two numbers in an array that add up to a target sum.",
      core_concept |-> "Hash Tables", context |-> "Two-sum variation"] >>

\* fallback_problems[:request.num_variations]
FallbackCount(num_variations) ==
  IF num_variations < Len(FallbackProblemData) THEN num_variations
  ELSE Len(FallbackProblemData)

\* _generate_fallback_problems
GenerateFallbackProblems(req) ==
  [i \in 1..FallbackCount(req.num_variations) |->
     [title |-> FallbackProblemData[i].title,
      statement |-> FallbackProblemData[i].statement,
      difficulty |-> req.difficulty_level,
      core_concept |-> FallbackProblemData[i].core_concept,
      context |-> FallbackProblemData[i].context,
      estimated_time |-> "15-20 min", complexity |-> "O(n)",
      approach_hint |-> IF req.include_hints
                        THEN <<"Think about the most efficient data structure for this problem.">>
                        ELSE <<>>]]

\* The list generate_problems returns once the response is parsed.
ParsedOrFallback(problems, req) ==
  IF problems = <<>> THEN GenerateFallbackProblems(req) ELSE problems

\* generate_problems, given how generate_response ended.
ProblemsOutcome(req, g) ==
  IF g.kind = "returned"
  THEN LET problems == ParseGeneratedProblems(g.text)
       IN [kind |-> "returned",
           source |-> IF problems = <<>> THEN "fallback" ELSE "parsed",
           value |-> ParsedOrFallback(problems, req)]
  ELSE [kind |-> "returned", source |-> "fallback", value |-> GenerateFallbackProblems(req)]

(***************************************************************************)
(* State.                                                                  *)
(***************************************************************************)

VARIABLES
  api_key,      \* GeminiService.api_key
  model,        \* GeminiService.model is set (the client is initialized)
  pc,           \* position of the one call in progress
  op,           \* the operation in progress
  request,      \* its request
  enhanced,     \* generate_response built enhanced_prompt
  attempt,      \* generate_response's loop variable (0-based)
  calls,        \* invocations of generate_content during this call
  delays,       \* the time.sleep() durations of this call, in order
  last_reply,   \* what the latest invocation of generate_content gave
  gen,          \* how generate_response ended
  result        \* how the operation ended

vars == <<api_key, model, pc, op, request, enhanced, attempt, calls, delays,
          last_reply, gen, result>>

\* shared.models.DifficultyLevel
DifficultyLevel == {"Easy", "Medium", "Hard"}

NoRequest ==
  [current_hint_level |-> 0, num_variations |-> 1, difficulty_level |-> "Medium",
   include_hints |-> FALSE]

NoOutcome == [kind |-> "none", text |-> "", error |-> ""]
NoResult == [kind |-> "none"]

\* GeminiService.__init__: the client is initialized only with an API key,
\* and stays unset when genai fails to construct it.
Init ==
  /\ api_key \in {"", "secret"}
  /\ model \in BOOLEAN
  /\ model => api_key # ""
  /\ pc = "idle"
  /\ op = "none"
  /\ request = NoRequest
  /\ enhanced = FALSE
  /\ attempt = 0
  /\ calls = 0
  /\ delays = <<>>
  /\ last_reply = NoReply
  /\ gen = NoOutcome
  /\ result = NoResult

(***************************************************************************)
(* GeminiService.generate_response                                         *)
(***************************************************************************)

NotInitializedError == "Gemini client not initialized. Please check your API key."
EmptyResponseError == "Empty response from Gemini"

\* Mutant: the terminal failure does not carry the attempt's error.
ExhaustedError_NoCause(e) ==
  "Failed to generate response after " \o Str(MAX_RETRIES) \o " attempts"

\* The exception raised once the last attempt has failed with error e.
ExhaustedError(e) ==
  "Failed to generate response after " \o Str(MAX_RETRIES) \o " attempts: " \o e

\* Mutant: the initialization check is missing.
Uninitialized_Unchecked(m) == FALSE

\* if not self.model
Uninitialized(m) == ~m

\* Mutant: a response with text is not recognized as a success.
HasText_Never(reply) == FALSE

\* response and hasattr(response, 'text') and response.text
HasText(reply) == reply.kind = "text" /\ reply.text # ""

\* What generate_response returns for a reply that passed HasText.
ReturnedText(reply) == Strip(reply.text)

\* The exception an attempt ends with: the service's, or the one raised for
\* an empty response.
AttemptError(reply) == IF reply.kind = "error" THEN reply.msg ELSE EmptyResponseError

\* Mutant: every failed attempt is followed by a sleep, the last one too.
RetriesLeft_Always(a) == TRUE

\* An attempt is followed by a sleep and another attempt.
RetriesLeft(a) == a < MAX_RETRIES - 1

\* Mutant: the delay does not grow with the attempt number.
BackoffDelay_Constant(a) == RETRY_DELAY

\* The sleep after the failed attempt a (0-based).
BackoffDelay(a) == RETRY_DELAY * (a + 1)

\* A caller invokes generate_response directly.
CallGenerate ==
  /\ pc = "idle"
  /\ op' = "generate"
  /\ pc' = "gen_enter"
  /\ UNCHANGED <<api_key, model, request, enhanced, attempt, calls, delays,
                 last_reply, gen, result>>

\* Entry of generate_response: the initialization check, then the prompt.
GenEnter ==
  /\ pc = "gen_enter"
  /\ IF Uninitialized(model)
     THEN /\ gen' = [kind |-> "raised", text |-> "", error |-> NotInitializedError]
          /\ pc' = "gen_done"
          /\ UNCHANGED <<enhanced, attempt>>
     ELSE /\ enhanced' = TRUE
          /\ attempt' = 0
          /\ pc' = "attempt"
          /\ UNCHANGED gen
  /\ UNCHANGED <<api_key, model, op, request, calls, delays, last_reply, result>>

\* One iteration of the retry loop up to its return, raise or sleep.
Attempt ==
  /\ pc = "attempt"
  /\ \E reply \in Replies(op) :
       /\ calls' = calls + 1
       /\ last_reply' = reply
       /\ IF HasText(reply)
          THEN /\ gen' = [kind |-> "returned", text |-> ReturnedText(reply), error |-> ""]
               /\ pc' = "gen_done"
          ELSE IF RetriesLeft(attempt)
          THEN /\ pc' = "sleep"
               /\ UNCHANGED gen
          ELSE /\ gen' = [kind |-> "raised", text |-> "",
                          error |-> ExhaustedError(AttemptError(reply))]
               /\ pc' = "gen_done"
  /\ UNCHANGED <<api_key, model, op, request, enhanced, attempt, delays, result>>

\* time.sleep(...) after a failed attempt, then the next iteration of
\* range(self.max_retries).  The loop never runs out: its last iteration
\* returns or raises, so "fell_through" (the function ending without a
\* return) is not reached.
Sleep ==
  /\ pc = "sleep"
  /\ delays' = Append(delays, BackoffDelay(attempt))
  /\ attempt' = attempt + 1
  /\ pc' = IF attempt + 1 < MAX_RETRIES THEN "attempt" ELSE "fell_through"
  /\ UNCHANGED <<api_key, model, op, request, enhanced, calls, last_reply, gen, result>>

\* generate_response hands its text or its exception to the direct caller.
FinishGenerate ==
  /\ pc = "gen_done"
  /\ op = "generate"
  /\ result' = gen
  /\ pc' = "done"
  /\ UNCHANGED <<api_key, model, op, request, enhanced, attempt, calls, delays,
                 last_reply, gen>>

\* CodeReviewService.review_code is called.
CallReviewCode ==
  /\ pc = "idle"
  /\ op' = "review"
  /\ pc' = "gen_enter"
  /\ UNCHANGED <<api_key, model, request, enhanced, attempt, calls, delays,
                 last_reply, gen, result>>

\* review_code after generate_response: parse and return, or the fallback.
FinishReviewCode ==
  /\ pc = "gen_done"
  /\ op = "review"
  /\ result' = ReviewOutcome(gen)
  /\ pc' = "done"
  /\ UNCHANGED <<api_key, model, op, request, enhanced, attempt, calls, delays,
                 last_reply, gen>>

\* HintService.get_hint is called: the level check, then generate_response.
CallGetHint ==
  /\ pc = "idle"
  /\ \E c \in (0 - LevelSpan)..(max_hint_levels + LevelSpan) :
       /\ request' = [NoRequest EXCEPT !.current_hint_level = c]
       /\ IF LevelRejected(c + 1)
          THEN /\ result' = HintRejectedOutcome(c)
               /\ pc' = "done"
          ELSE /\ pc' = "gen_enter"
               /\ UNCHANGED result
  /\ op' = "hint"
  /\ UNCHANGED <<api_key, model, enhanced, attempt, calls, delays, last_reply, gen>>

\* get_hint after generate_response.
FinishGetHint ==
  /\ pc = "gen_done"
  /\ op = "hint"
  /\ result' = HintOutcome(request.current_hint_level, gen)
  /\ pc' = "done"
  /\ UNCHANGED <<api_key, model, op, request, enhanced, attempt, calls, delays,
                 last_reply, gen>>

\* HintService.get_personalized_hint or get_stuck_help is called.
CallSpecialHint ==
  /\ pc = "idle"
  /\ op' \in {"personalized", "stuck"}
  /\ pc' = "gen_enter"
  /\ UNCHANGED <<api_key, model, request, enhanced, attempt, calls, delays,
                 last_reply, gen, result>>

\* get_personalized_hint or get_stuck_help after generate_response.
FinishSpecialHint ==
  /\ pc = "gen_done"
  /\ op \in {"personalized", "stuck"}
  /\ result' = IF op = "personalized"
               THEN SpecialHintOutcome(0, "personalized", gen)
               ELSE SpecialHintOutcome(-1, "emergency", gen)
  /\ pc' = "done"
  /\ UNCHANGED <<api_key, model, op, request, enhanced, attempt, calls, delays,
                 last_reply, gen>>

\* ProblemGeneratorService.generate_problems is called.
CallGenerateProblems ==
  /\ pc = "idle"
  /\ \E n \in 1..MaxVariations, d \in DifficultyLevel, h \in BOOLEAN :
       request' = [NoRequest EXCEPT !.num_variations = n, !.difficulty_level = d,
                                    !.include_hints = h]
  /\ op' = "problems"
  /\ pc' = "gen_enter"
  /\ UNCHANGED <<api_key, model, enhanced, attempt, calls, delays, last_reply,
                 gen, result>>

\* generate_problems after generate_response.
FinishGenerateProblems ==
  /\ pc = "gen_done"
  /\ op = "problems"
  /\ result' = ProblemsOutcome(request, gen)
  /\ pc' = "done"
  /\ UNCHANGED <<api_key, model, op, request, enhanced, attempt, calls, delays,
                 last_reply, gen>>

\* The call is over; the service is ready for the next one.
Reset ==
  /\ pc = "done"
  /\ pc' = "idle"
  /\ op' = "none"
  /\ request' = NoRequest
  /\ enhanced' = FALSE
  /\ attempt' = 0
  /\ calls' = 0
  /\ delays' = <<>>
  /\ last_reply' = NoReply
  /\ gen' = NoOutcome
  /\ result' = NoResult
  /\ UNCHANGED <<api_key, model>>

Next ==
  \/ CallGenerate
  \/ GenEnter
  \/ Attempt
  \/ Sleep
  \/ FinishGenerate
  \/ CallReviewCode
  \/ FinishReviewCode
  \/ CallGetHint
  \/ FinishGetHint
  \/ CallSpecialHint
  \/ FinishSpecialHint
  \/ CallGenerateProblems
  \/ FinishGenerateProblems
  \/ Reset

Spec == Init /\ [][Next]_vars

(***************************************************************************)
(* The review parser on its own: _parse_review_response is a pure function *)
(* of the response text.  In this specification gen holds the text it is   *)
(* given and result the sections it returns.                               *)
(***************************************************************************)

ParserInit ==
  /\ Init
  /\ model

\* _parse_review_response is applied to a response text.
ParseReview ==
  /\ pc = "idle"
  /\ \E response \in ReplyTexts("review") :
       /\ gen' = [kind |-> "returned", text |-> response, error |-> ""]
       /\ result' = [kind |-> "returned", source |-> "parsed",
                     value |-> ParseReviewResponse(response)]
  /\ op' = "review"
  /\ pc' = "done"
  /\ UNCHANGED <<api_key, model, request, enhanced, attempt, calls, delays, last_reply>>

ParserNext ==
  \/ ParseReview
  \/ Reset

ParserSpec == ParserInit /\ [][ParserNext]_vars

(***************************************************************************)
(* The generation client on its own: direct calls of generate_response     *)
(* and, between calls, update_api_key.  A call in progress goes on: the    *)
(* entry of generate_response is straight-line code, an invocation of      *)
(* generate_content returns or fails, and time.sleep returns.              *)
(***************************************************************************)

ApiKeys == {"", "secret"}

\* The values self.model can have after _initialize_client ran with the
\* given key on a client whose model was m: an empty key returns at once
\* and leaves the model as it was; otherwise the model is constructed, or
\* the construction fails and the model is unset.
InitializeClient(key, m) == IF key = "" THEN {m} ELSE {TRUE, FALSE}

\* update_api_key
UpdateApiKey ==
  /\ pc = "idle"
  /\ \E new_api_key \in ApiKeys :
       /\ api_key' = new_api_key
       /\ model' \in InitializeClient(new_api_key, model)
  /\ UNCHANGED <<pc, op, request, enhanced, attempt, calls, delays, last_reply,
                 gen, result>>

ClientNext ==
  \/ CallGenerate
  \/ GenEnter
  \/ Attempt
  \/ Sleep
  \/ FinishGenerate
  \/ Reset
  \/ UpdateApiKey

ClientSpec ==
  /\ Init
  /\ [][ClientNext]_vars
  /\ WF_vars(GenEnter)
  /\ WF_vars(Attempt)
  /\ WF_vars(Sleep)

(***************************************************************************)
(* The enrichment of the prompt.  A dict is a function from its keys; an   *)
(* absent key, None, an empty dict and an empty list all read as <<>>,     *)
(* which is what the code's truth tests cannot tell apart.  In PromptSpec  *)
(* request holds the arguments and result what the function returns and    *)
(* the context as it is after the call.                                    *)
(***************************************************************************)

SystemContext ==
  "\n"
    \o "        You are DSA-COACH AI, an intelligent coding mentor specializing in Data Structures and Algorithms. Your role is to help students master DSA concepts through guided practice, avoiding solution dependency.\n"
    \o "\n"
    \o "        Core principles:\n"
    \o "        - Focus on understanding over memorization\n"
    \o "        - Provide progressive hints without revealing complete solutions\n"
    \o "        - Encourage independent thinking through guided questions\n"
    \o "        - Be patient, encouraging, and adapt to the user's level\n"
    \o "        - Connect new problems to previously learned concepts\n"
    \o "        - Build intuition through analogies and examples\n"
    \o "\n"
    \o "        Always maintain a supportive and educational tone. Guide users to discover solutions independently while building lasting DSA intuition.\n"
    \o "        "

\* _add_system_context
AddSystemContext(prompt) == SystemContext \o "\n\nUser Request: " \o prompt

\* d.get(key) as far as its truth value and content go.
DictGet(d, key) == IF key \in DOMAIN d THEN d[key] ELSE <<>>

\* d.get(key, default)
DictGetOr(d, key, default) == IF key \in DOMAIN d THEN d[key] ELSE default

\* Mutant: the first three entries of the history are kept.
LastThree_FirstThree(history) ==
  SubSeq(history, 1, IF Len(history) > 3 THEN 3 ELSE Len(history))

\* history[-3:]
LastThree(history) ==
  SubSeq(history, IF Len(history) > 3 THEN Len(history) - 2 ELSE 1, Len(history))

\* "\n".join([f"Previous: {item}" for item in history])
HistoryText(history) ==
  JoinLines([i \in 1..Len(history) |-> "Previous: " \o history[i]])

\* _enhance_prompt_with_context
EnhancePromptWithContext(prompt, context) ==
  LET history == DictGet(context, "conversation_history")
      profile == DictGet(context, "user_profile")
      problem == DictGet(context, "current_problem")
  IN AddSystemContext(prompt)
       \o (IF history # <<>>
           THEN "\n\nConversation History:\n" \o HistoryText(LastThree(history))
           ELSE "")
       \o (IF profile # <<>>
           THEN "\n\nUser Profile: Skill Level: "
                  \o DictGetOr(profile, "skill_level", "Unknown")
                  \o ", Goal: " \o DictGetOr(profile, "target_goal", "Unknown")
           ELSE "")
       \o (IF problem # <<>>
           THEN "\n\nCurrent Problem Context: " \o DictGetOr(problem, "title", "N/A")
                  \o " - " \o DictGetOr(problem, "difficulty", "Unknown")
                  \o " difficulty"
           ELSE "")

\* The context after _enhance_prompt_with_context: the function only reads
\* it (get, and a slice that copies).
ContextAfterEnhance(context) == context

Prompts == {"Explain heaps", ""}

HistoryItems == {"q1", "q2"}

Histories == UNION {[1..k -> HistoryItems] : k \in 0..MaxHistory}

Profiles ==
  {<<>>, [skill_level |-> "Beginner"], [target_goal |-> "Interviews"],
   [skill_level |-> "Advanced", target_goal |-> "Interviews"]}

CurrentProblems ==
  {<<>>, [title |-> "Two Sum"], [title |-> "Two Sum", difficulty |-> "Easy"]}

\* A context with the given parts; a part that is <<>> is left out.
MakeContext(history, profile, problem) ==
  LET keys == (IF history # <<>> THEN {"conversation_history"} ELSE {})
                \cup (IF profile # <<>> THEN {"user_profile"} ELSE {})
                \cup (IF problem # <<>> THEN {"current_problem"} ELSE {})
  IN [k \in keys |-> IF k = "conversation_history" THEN history
                     ELSE IF k = "user_profile" THEN profile
                     ELSE problem]

Contexts ==
  {MakeContext(h, u, c) : h \in Histories, u \in Profiles, c \in CurrentProblems}

\* _enhance_prompt_with_context is applied to a prompt and a context.
EnhancePrompt ==
  /\ pc = "idle"
  /\ \E prompt \in Prompts, context \in Contexts :
       /\ request' = [prompt |-> prompt, context |-> context]
       /\ result' = [kind |-> "returned",
                     value |-> EnhancePromptWithContext(prompt, context),
                     context |-> ContextAfterEnhance(context)]
  /\ op' = "enhance"
  /\ pc' = "done"
  /\ enhanced' = TRUE
  /\ UNCHANGED <<api_key, model, attempt, calls, delays, last_reply, gen>>

PromptNext ==
  \/ EnhancePrompt
  \/ Reset

PromptSpec == ParserInit /\ [][PromptNext]_vars

(***************************************************************************)
(* Concurrent calls on the same service instances.  In this specification  *)
(* every variable but api_key and model is a function of the caller:       *)
(* pc, op, request and result belong to the call; enhanced, attempt and    *)
(* gen are locals of generate_response and live in the call's frame;       *)
(* calls, delays and last_reply record, per caller, the invocations of     *)
(* generate_content, the sleeps and the replies received, in order.        *)
(***************************************************************************)

\* Mutant: the locals of generate_response are kept in one place for all
\* calls (as fields of the service would be).
Frame_Shared(p) == 1

\* Where the locals of call p live: in p's own activation of
\* generate_response.
Frame(p) == p

Callers == 1..NumCallers

ConcOps == {"generate", "review", "hint", "problems"}

ConcReplies ==
  {[kind |-> "error", text |-> "", msg |-> "503 unavailable"],
   [kind |-> "text", text |-> " ok ", msg |-> ""]}

ConcInit ==
  /\ api_key \in {"", "secret"}
  /\ model \in BOOLEAN
  /\ model => api_key # ""
  /\ pc = [p \in Callers |-> "idle"]
  /\ op = [p \in Callers |-> "none"]
  /\ request = [p \in Callers |-> NoRequest]
  /\ enhanced = [p \in Callers |-> FALSE]
  /\ attempt = [p \in Callers |-> 0]
  /\ calls = [p \in Callers |-> 0]
  /\ delays = [p \in Callers |-> <<>>]
  /\ last_reply = [p \in Callers |-> <<>>]
  /\ gen = [p \in Callers |-> NoOutcome]
  /\ result = [p \in Callers |-> NoResult]

\* Caller p invokes one of the four operations.
ConcCall(p) ==
  /\ pc[p] = "idle"
  /\ \E o \in ConcOps, c \in {0, 2} :
       /\ op' = [op EXCEPT ![p] = o]
       /\ request' = [request EXCEPT ![p] =
                        IF o = "hint" THEN [NoRequest EXCEPT !.current_hint_level = c]
                        ELSE NoRequest]
  /\ pc' = [pc EXCEPT ![p] = "gen_enter"]
  /\ UNCHANGED <<api_key, model, enhanced, attempt, calls, delays,
                 last_reply, gen, result>>

\* Entry of generate_response in call p.
ConcGenEnter(p) ==
  /\ pc[p] = "gen_enter"
  /\ IF Uninitialized(model)
     THEN /\ gen' = [gen EXCEPT ![Frame(p)] =
                       [kind |-> "raised", text |-> "", error |-> NotInitializedError]]
          /\ pc' = [pc EXCEPT ![p] = "gen_done"]
          /\ UNCHANGED <<enhanced, attempt>>
     ELSE /\ enhanced' = [enhanced EXCEPT ![Frame(p)] = TRUE]
          /\ attempt' = [attempt EXCEPT ![Frame(p)] = 0]
          /\ pc' = [pc EXCEPT ![p] = "attempt"]
          /\ UNCHANGED gen
  /\ UNCHANGED <<api_key, model, op, request, calls, delays, last_reply, result>>

\* One iteration of the retry loop of call p.
ConcAttempt(p) ==
  /\ pc[p] = "attempt"
  /\ \E reply \in ConcReplies :
       /\ calls' = [calls EXCEPT ![p] = @ + 1]
       /\ last_reply' = [last_reply EXCEPT ![p] = Append(@, reply)]
       /\ IF HasText(reply)
          THEN /\ gen' = [gen EXCEPT ![Frame(p)] =
                            [kind |-> "returned", text |-> ReturnedText(reply), error |-> ""]]
               /\ pc' = [pc EXCEPT ![p] = "gen_done"]
          ELSE IF RetriesLeft(attempt[Frame(p)])
          THEN /\ pc' = [pc EXCEPT ![p] = "sleep"]
               /\ UNCHANGED gen
          ELSE /\ gen' = [gen EXCEPT ![Frame(p)] =
                            [kind |-> "raised", text |-> "",
                             error |-> ExhaustedError(AttemptError(reply))]]
               /\ pc' = [pc EXCEPT ![p] = "gen_done"]
  /\ UNCHANGED <<api_key, model, op, request, enhanced, attempt, delays, result>>

\* The sleep of call p and the next iteration of its loop.
ConcSleep(p) ==
  /\ pc[p] = "sleep"
  /\ delays' = [delays EXCEPT ![p] = Append(@, BackoffDelay(attempt[Frame(p)]))]
  /\ attempt' = [attempt EXCEPT ![Frame(p)] = @ + 1]
  /\ pc' = [pc EXCEPT ![p] =
             IF attempt[Frame(p)] + 1 < MAX_RETRIES THEN "attempt" ELSE "fell_through"]
  /\ UNCHANGED <<api_key, model, op, request, enhanced, calls, last_reply, gen, result>>

\* What the operation o returns for request req once generate_response
\* has ended as g.
OutcomeOf(o, req, g) ==
  IF o = "generate" THEN g
  ELSE IF o = "review" THEN ReviewOutcome(g)
  ELSE IF o = "hint" THEN HintOutcome(req.current_hint_level, g)
  ELSE ProblemsOutcome(req, g)

\* Call p returns to its caller.
ConcFinish(p) ==
  /\ pc[p] = "gen_done"
  /\ result' = [result EXCEPT ![p] = OutcomeOf(op[p], request[p], gen[Frame(p)])]
  /\ pc' = [pc EXCEPT ![p] = "done"]
  /\ UNCHANGED <<api_key, model, op, request, enhanced, attempt, calls, delays,
                 last_reply, gen>>

ConcNext ==
  \/ \E p \in Callers : ConcCall(p)
  \/ \E p \in Callers : ConcGenEnter(p)
  \/ \E p \in Callers : ConcAttempt(p)
  \/ \E p \in Callers : ConcSleep(p)
  \/ \E p \in Callers : ConcFinish(p)

ConcSpec == ConcInit /\ [][ConcNext]_vars

(***************************************************************************)
(* Properties.                                                             *)
(***************************************************************************)

Finished == pc \in {"gen_done", "done"}

\* generate_response got past its initialization check and has ended.
GenEnded == Finished /\ gen.kind # "none"

\* A record with every field of CodeReviewResponse and CodeAnalysis.
CompleteReview(v) ==
  /\ DOMAIN v = {"overall", "issues", "optimizations", "alternatives"}
  /\ DOMAIN v.overall = {"correctness_score", "time_complexity", "space_complexity",
                         "style_rating", "summary"}
  /\ v.overall.correctness_score \in Int
  /\ v.overall.style_rating \in Int
  /\ v.overall.time_complexity \in STRING
  /\ v.overall.space_complexity \in STRING
  /\ v.overall.summary \in STRING
  /\ v.issues \in Seq(STRING)
  /\ v.optimizations \in Seq(STRING)
  /\ v.alternatives \in Seq(STRING)

\* C1: review_code never raises and always returns a complete review record;
\* whenever generate_response failed (client uninitialized, or retries
\* exhausted) the record returned is the fixed fallback review.
C1_ReviewAlwaysComplete ==
  (op = "review" /\ pc = "done") =>
    /\ result.kind = "returned"
    /\ CompleteReview(result.value)
    /\ gen.kind = "raised" =>
         /\ result.value.overall.summary
              = "Code review service temporarily unavailable. Please try again later."
         /\ result.value.overall.correctness_score = 6
         /\ result.value.overall.style_rating = 6
         /\ Len(result.value.issues) = 1
         /\ Len(result.value.optimizations) = 1
         /\ Len(result.value.alternatives) = 1

\* review_code has returned the fallback after the retries were exhausted.
C1_Witness ==
  /\ op = "review" /\ pc = "done"
  /\ gen.kind = "raised" /\ calls = MAX_RETRIES
  /\ result.kind = "returned" /\ result.source = "fallback"

\* C2 (as claimed): get_hint with current level c, c + 1 > N, fails with an
\* invalid-request condition and returns no hint record.
C2_RejectedLevelFails ==
  (op = "hint" /\ pc = "done" /\ request.current_hint_level + 1 > 4) =>
    result.kind = "raised"

\* C3: both scores of every review returned by review_code, parsed or
\* fallback, are integers within [1, 10].
C3_ScoresWithinRange ==
  (op = "review" /\ pc = "done") =>
    /\ result.value.overall.correctness_score \in 1..10
    /\ result.value.overall.style_rating \in 1..10

\* A parsed review whose overall section held an in-range correctness line
\* and an out-of-range style line.
C3_Witness ==
  /\ op = "review" /\ pc = "done" /\ result.source = "parsed"
  /\ gen.text = "1. OVERALL ANALYSIS:\nCorrectness: 8\nStyle rating 0"
  /\ result.value.overall.correctness_score = 8
  /\ result.value.overall.style_rating = 7

\* C4 (as claimed): a text returned by generate_response is non-empty and is
\* the service's text stripped; a reply that is empty after stripping is never
\* returned as a success.
C4_ReturnedTextNonEmpty ==
  /\ gen.kind = "returned" =>
       /\ gen.text # ""
       /\ gen.text = Strip(last_reply.text)
  /\ (GenEnded /\ last_reply.kind = "text" /\ Strip(last_reply.text) = "") =>
       gen.kind = "raised"

\* C5: with an uninitialized client generate_response raises at once: the
\* prompt is not built, the capability is not invoked and nothing sleeps.
C5_UninitializedFailsImmediately ==
  ~model =>
    /\ ~enhanced
    /\ calls = 0
    /\ delays = <<>>
    /\ pc \notin {"attempt", "sleep"}
    /\ (pc = "gen_done" \/ gen.kind # "none") =>
         /\ gen.kind = "raised"
         /\ gen.error = "Gemini client not initialized. Please check your API key."

\* generate_response has raised for an uninitialized client.
C5_Witness == ~model /\ pc = "gen_done" /\ gen.kind = "raised" /\ calls = 0

\* C6: the capability is invoked at most max_retries times per call, one
\* invocation after the other, and the invocation that yields non-empty text
\* is the last one.
C6_AtMostMaxRetriesAttempts ==
  /\ calls <= 3
  /\ enhanced => calls = (IF pc = "attempt" THEN attempt ELSE attempt + 1)
  /\ (last_reply.kind = "text" /\ last_reply.text # "") =>
       (Finished /\ gen.kind = "returned")

\* The third invocation succeeded.
C6_Witness == gen.kind = "returned" /\ calls = MAX_RETRIES /\ pc = "gen_done"

\* C7: when all max_retries attempts failed, generate_response raises the
\* terminal failure carrying the error of the last attempt, and returns no
\* text.
C7_ExhaustionRaisesLastError ==
  (GenEnded /\ enhanced /\ ~(last_reply.kind = "text" /\ last_reply.text # "")) =>
    /\ calls = 3
    /\ gen.kind = "raised"
    /\ gen.text = ""
    /\ gen.error = "Failed to generate response after 3 attempts: "
                     \o (IF last_reply.kind = "error" THEN last_reply.msg
                         ELSE "Empty response from Gemini")
    /\ op = "generate" /\ pc = "done" => result.kind = "raised"

\* The direct caller got the terminal failure of a service error.
C7_Witness ==
  /\ op = "generate" /\ pc = "done" /\ result.kind = "raised"
  /\ calls = MAX_RETRIES /\ last_reply.kind = "error"

\* C8: the k-th delay is retry_delay * k and follows the k-th failed attempt
\* when another attempt follows; no delay follows a success or the last
\* failed attempt.
C8_BackoffDelays ==
  /\ \A k \in 1..Len(delays) : delays[k] = 1 * k
  /\ pc = "attempt" => Len(delays) = calls
  /\ pc = "sleep" => Len(delays) = calls - 1
  /\ (Finished /\ enhanced) => Len(delays) = calls - 1
  /\ ~enhanced => delays = <<>>

\* Two failures, then success: the text is returned after delays 1 and 2.
C8_Witness ==
  /\ gen.kind = "returned" /\ gen.text # "" /\ calls = 3 /\ delays = <<1, 2>>

\* C9 (as claimed): generate_problems returns at most num_variations problems.
C9_AtMostRequestedCount ==
  (op = "problems" /\ pc = "done") => Len(result.value) <= request.num_variations

\* C10: every problem returned has a non-empty statement; every chunk after
\* a marker yields a problem, and a chunk whose statement stayed empty gets
\* the placeholder naming its 1-based index and its core concept.
C10_StatementNonEmpty ==
  (op = "problems" /\ pc = "done") =>
    /\ \A i \in 1..Len(result.value) : result.value[i].statement # ""
    /\ result.source = "parsed" =>
         LET sections == Split(gen.text, "Problem")
         IN /\ Len(result.value) = Len(sections) - 1
            /\ \A i \in 1..Len(result.value) :
                 LET f == ProblemLines(ProblemDefaults(i),
                                       StrippedLines(Split(sections[i + 1], "\n")))
                 IN f.statement = "" =>
                      result.value[i].statement
                        = "Practice problem " \o Str(i) \o " focusing on "
                            \o result.value[i].core_concept

\* The second chunk has no statement and gets the placeholder.
C10_Witness ==
  /\ op = "problems" /\ pc = "done" /\ result.source = "parsed"
  /\ Len(result.value) = 2
  /\ result.value[2].statement = "Practice problem 2 focusing on DP"

\* C11: for every current level c with 1 <= c + 1 <= N, get_hint returns a
\* hint whose level is exactly c + 1, on the generated path and on the
\* fallback path alike.
C11_HintLevelAdvancesByOne ==
  (op = "hint" /\ pc = "done"
     /\ 1 <= request.current_hint_level + 1
     /\ request.current_hint_level + 1 <= max_hint_levels) =>
    /\ result.kind = "returned"
    /\ result.value.hint.level = request.current_hint_level + 1

\* get_hint was called at level 2, generation failed, and the fallback hint
\* of level 3 came back.
C11_Witness ==
  /\ op = "hint" /\ pc = "done" /\ request.current_hint_level = 2
  /\ gen.kind = "raised" /\ result.source = "fallback"
  /\ result.value.hint.level = 3

\* C12: every response of get_hint, generated or fallback, has
\* next_available = (returned level < N) and total_levels = N.
C12_NextAvailableBelowMax ==
  (op = "hint" /\ pc = "done") =>
    /\ result.kind = "returned"
    /\ result.value.next_available = (result.value.hint.level < max_hint_levels)
    /\ result.value.total_levels = max_hint_levels

\* The fallback hint of the last level came back with no next hint available.
C12_Witness ==
  /\ op = "hint" /\ pc = "done" /\ result.source = "fallback"
  /\ result.value.hint.level = max_hint_levels
  /\ result.value.next_available = FALSE

\* C13 (as claimed): the category of every hint returned by get_hint,
\* get_personalized_hint or get_stuck_help is fixed by its level: 1
\* clarifying, 2 direction, 3 structure, 4 implementation, 0 personalized,
\* -1 emergency.
C13_CategoryFixedByLevel ==
  (op \in {"hint", "personalized", "stuck"} /\ pc = "done") =>
    LET level == result.value.hint.level
        hint_type == result.value.hint.hint_type
    IN /\ level = 1 => hint_type = "clarifying"
       /\ level = 2 => hint_type = "direction"
       /\ level = 3 => hint_type = "structure"
       /\ level = 4 => hint_type = "implementation"
       /\ level = 0 => hint_type = "personalized"
       /\ level = -1 => hint_type = "emergency"

\* No line of the text is recognized as a section header.
NoHeaderIn(text) ==
  \A lines \in {Split(text, "\n")} :
    \A i \in 1..Len(lines) : HeaderOf(Strip(lines[i])) = ""

\* review_code has returned for a generated text without any header.
HeaderlessReviewed ==
  /\ op = "review" /\ pc = "done"
  /\ gen.kind = "returned" /\ NoHeaderIn(gen.text)

ReviewParsed == op = "review" /\ pc = "done" /\ gen.kind = "returned"

\* Lines 2..k of the response belong to an overall section opened by line 1.
InOverallSection(lines, k) ==
  /\ 2 <= k /\ k <= Len(lines)
  /\ HeaderOf(Strip(lines[1])) = "overall"
  /\ \A i \in 2..k : HeaderOf(Strip(lines[i])) = ""

\* C15 (as claimed): an overall section that contains the line
\* "Correctness Score: 9/10" yields the correctness score 9.
C15_ScoreOutOfTenExtracted ==
  ReviewParsed =>
    LET lines == Split(gen.text, "\n")
    IN (/\ InOverallSection(lines, Len(lines))
        /\ lines[Len(lines)] = "Correctness Score: 9/10") =>
         result.value.overall.correctness_score = 9

\* The score a line is read for: a correctness- or style-labelled line with
\* a digit ("" for any other line).
ScoreLabel(line) ==
  IF Contains(Lower(line), "correctness") /\ HasDigit(line) THEN "correctness"
  ELSE IF Contains(Lower(line), "style") /\ HasDigit(line) THEN "style"
  ELSE ""

\* A score line whose digits parse to a value outside [1, 10].
OutOfRangeScoreLine(line) ==
  /\ ScoreLabel(line) # ""
  /\ ~(1 <= ParseInt(DigitsOf(line)) /\ ParseInt(DigitsOf(line)) <= 10)

RemoveAt(lines, k) == SubSeq(lines, 1, k - 1) \o SubSeq(lines, k + 1, Len(lines))

WithoutSummary(v) == [v EXCEPT !.overall.summary = ""]

\* C16: a correctness- or style-labelled line of the overall section whose
\* digits parse outside [1, 10] is ignored without error: the review equals,
\* in every field but the summary (which quotes the section), the review of
\* the same response without that line, and the score it names is 7 when no
\* other line of the response names it.
C16_OutOfRangeScoreIgnored ==
  ReviewParsed =>
    \A lines \in {Split(gen.text, "\n")} :
       \A k \in 2..Len(lines) :
         (InOverallSection(lines, k) /\ OutOfRangeScoreLine(lines[k])) =>
           /\ result.kind = "returned"
           /\ WithoutSummary(result.value)
                = WithoutSummary(ParseReviewResponse(JoinLines(RemoveAt(lines, k))))
           /\ (\A i \in 2..Len(lines) : i # k => ScoreLabel(lines[i]) # ScoreLabel(lines[k])) =>
                IF ScoreLabel(lines[k]) = "correctness"
                THEN result.value.overall.correctness_score = 7
                ELSE result.value.overall.style_rating = 7

\* "Correctness Score: 15" came after a line that set the score to 8, and
\* the score is still 8.
C16_Witness ==
  /\ ReviewParsed
  /\ gen.text = "1. OVERALL ANALYSIS:\nCorrectness: 8\nCorrectness Score: 15"
  /\ result.value.overall.correctness_score = 8
  /\ result.value.overall.style_rating = 7

RECURSIVE JoinSpaces(_)
JoinSpaces(parts) ==
  IF parts = <<>> THEN ""
  ELSE IF Len(parts) = 1 THEN Head(parts)
  ELSE Head(parts) \o " " \o JoinSpaces(Tail(parts))

\* The last line of the item that starts at line i: the line before the next
\* marker line, or the last line.
ItemEnd(content, i) ==
  CHOOSE j \in i..Len(content) :
    /\ \A m \in (i + 1)..j : ~StartsItem(content[m])
    /\ j = Len(content) \/ StartsItem(content[j + 1])

\* The item that starts at line i: the line without its marker, and the
\* lines up to the next marker joined to it by single spaces.
ItemText(content, i) ==
  Strip(JoinSpaces(<<IF StartsItem(content[i]) THEN LStripMarker(content[i])
                     ELSE content[i]>>
                   \o SubSeq(content, i + 1, ItemEnd(content, i))))

\* The non-empty items of the lines i.. of a list section, in order.
RECURSIVE ItemsFrom(_, _)
ItemsFrom(content, i) ==
  IF i > Len(content) THEN <<>>
  ELSE (IF ItemText(content, i) # "" THEN <<ItemText(content, i)>> ELSE <<>>)
         \o ItemsFrom(content, ItemEnd(content, i) + 1)

\* The response is one issues section: a header line and its lines.
IssuesSectionOnly(lines) ==
  /\ Len(lines) >= 2
  /\ HeaderOf(Strip(lines[1])) = "issues"
  /\ \A i \in 2..Len(lines) : HeaderOf(Strip(lines[i])) = ""

\* C17: list extraction opens an item at each marker line, joins every
\* following line without a marker to the open item with a single space,
\* flushes the open item at the end, keeps the order and the duplicates and
\* returns no empty item; the lines '- a', '- b', 'c' give ['a', 'b c'].
C17_ListItemsMergeContinuations ==
  ReviewParsed =>
    LET lines == Split(gen.text, "\n")
    IN /\ IssuesSectionOnly(lines) =>
            result.value.issues = ItemsFrom(StrippedLines(Tail(lines)), 1)
       /\ gen.text = "Issues Found\n- a\n- b\nc" =>
            result.value.issues = <<"a", "b c">>
       /\ gen.text = "Issues Found\n- Off by one\n- Off by one" =>
            result.value.issues = <<"Off by one", "Off by one">>
       /\ gen.text = "Issues Found\nx\n1. y\n-\n* z\n-\nw w\n- y" =>
            result.value.issues = <<"x", "y", "z", "w w", "y">>
       /\ \A i \in 1..Len(result.value.issues) : result.value.issues[i] # ""
       /\ \A i \in 1..Len(result.value.optimizations) : result.value.optimizations[i] # ""
       /\ \A i \in 1..Len(result.value.alternatives) : result.value.alternatives[i] # ""

\* The section '- a', '- b', 'c' was reviewed and gave two items.
C17_Witness ==
  /\ ReviewParsed
  /\ gen.text = "Issues Found\n- a\n- b\nc"
  /\ result.value.issues = <<"a", "b c">>

\* The number of occurrences of sub in s, counted from left to right without
\* overlap.
RECURSIVE Occurrences(_, _)
Occurrences(s, sub) ==
  IF Find(s, sub, 0) = 0 THEN 0
  ELSE 1 + Occurrences(Suffix(s, Find(s, sub, 0) + Len(sub)), sub)

\* C18: problem parsing gives one problem per block after an occurrence of
\* 'Problem'; a first block with title X, difficulty Hard and statement
\* 'Do Y' and a second block with only title Z give exactly two problems in
\* that order, the second with the placeholder statement naming index 2.
C18_OneProblemPerBlock ==
  (op = "problems" /\ pc = "done" /\ gen.kind = "returned") =>
    /\ Occurrences(gen.text, "Problem") > 0 =>
         Len(result.value) = Occurrences(gen.text, "Problem")
    /\ gen.text = "Problem\nTitle: X\nDifficulty: Hard\nStatement: Do Y\nProblem\nTitle: Z" =>
         /\ Len(result.value) = 2
         /\ result.value[1].title = "X"
         /\ result.value[1].difficulty = "Hard"
         /\ result.value[1].statement = "Do Y"
         /\ result.value[2].title = "Z"
         /\ result.value[2].statement
              = "Practice problem 2 focusing on " \o result.value[2].core_concept

\* The two blocks were parsed; the second one got the placeholder.
C18_Witness ==
  /\ op = "problems" /\ pc = "done" /\ gen.kind = "returned"
  /\ gen.text = "Problem\nTitle: X\nDifficulty: Hard\nStatement: Do Y\nProblem\nTitle: Z"
  /\ result.source = "parsed"
  /\ result.value[2].statement = "Practice problem 2 focusing on Algorithm Practice"

\* The segmenter after the first k of the lines.
SegmenterAfter(lines, k) ==
  ReviewLines([sections |-> DefaultSections, current_section |-> "",
               current_content |-> <<>>],
              SubSeq(lines, 1, k))

\* Line k is the last line of the text or the line before a header line.
SectionEndsAt(lines, k) ==
  k = Len(lines) \/ HeaderOf(Strip(lines[k + 1])) # ""

\* The segmenter, in state st after a line at which a section ends, commits:
\* it has a section open with lines in it.
Commits(st) == st.current_section # "" /\ st.current_content # <<>>

CommitPoints(text) ==
  {k \in 1..Len(Split(text, "\n")) :
     /\ SectionEndsAt(Split(text, "\n"), k)
     /\ Commits(SegmenterAfter(Split(text, "\n"), k))}

\* The last header line at or before line k (0 for none).
LastHeader(lines, k) ==
  LET hs == {h \in 1..k : HeaderOf(Strip(lines[h])) # ""}
  IN IF hs = {} THEN 0 ELSE CHOOSE h \in hs : \A g \in hs : g <= h

\* C19: for every section the segmenter commits, the committed lines are the
\* non-blank lines read since the header that opened the section, and
\* segmenting their concatenation again matches no header, opens no section
\* and commits none (the sections stay as they were initialized).
C19_ResegmentingCommitsNothing ==
  ReviewParsed =>
    \A lines \in {Split(gen.text, "\n")} :
      \A k \in {j \in 1..Len(lines) : SectionEndsAt(lines, j)} :
        \A st \in {SegmenterAfter(lines, k)} :
          Commits(st) =>
            \A h \in {LastHeader(lines, k)} :
              \A again \in {Split(JoinLines(st.current_content), "\n")} :
                /\ h > 0
                /\ st.current_section = HeaderOf(Strip(lines[h]))
                /\ st.current_content = StrippedLines(SubSeq(lines, h + 1, k))
                /\ \A i \in 1..Len(again) : HeaderOf(Strip(again[i])) = ""
                /\ \A end \in {SegmenterAfter(again, Len(again))} :
                     /\ end.current_section = ""
                     /\ end.sections = DefaultSections

\* A response with two sections was segmented: two commits.
C19_Witness ==
  /\ ReviewParsed
  /\ gen.text = "1. OVERALL ANALYSIS:\nCorrectness: 8\nIssues Found\n- Off by one"
  /\ CommitPoints(gen.text) = {2, 4}
  /\ result.value.overall.correctness_score = 8
  /\ result.value.issues = <<"Off by one">>

\* What a call that received the replies of history, in order, ends with
\* when it runs alone: the text of a last reply that has one, or the
\* terminal failure after MAX_RETRIES replies without a text.
OutcomeAlone(history) ==
  LET last == history[Len(history)]
  IN IF last.kind = "text" /\ last.text # ""
     THEN [kind |-> "returned", text |-> Strip(last.text), error |-> ""]
     ELSE [kind |-> "raised", text |-> "",
           error |-> "Failed to generate response after 3 attempts: "
                       \o (IF last.kind = "error" THEN last.msg
                           ELSE "Empty response from Gemini")]

\* Call p has ended on an initialized client.
EndedInitialized(p) == pc[p] \in {"gen_done", "done"} /\ last_reply[p] # <<>>

\* The state of call p is the state a lone call has after p's own replies.
OwnStateOnly(p) ==
  /\ calls[p] = Len(last_reply[p])
  /\ calls[p] <= MAX_RETRIES
  /\ delays[p] = [i \in 1..Len(delays[p]) |-> i]
  /\ pc[p] = "attempt" =>
       /\ enhanced[p] /\ attempt[p] = calls[p] /\ Len(delays[p]) = calls[p]
  /\ pc[p] = "sleep" =>
       /\ enhanced[p] /\ attempt[p] = calls[p] - 1 /\ Len(delays[p]) = calls[p] - 1
  /\ pc[p] # "fell_through"
  /\ EndedInitialized(p) =>
       /\ Len(delays[p]) = calls[p] - 1
       /\ gen[p] = OutcomeAlone(last_reply[p])
       /\ gen[p].kind = "raised" => calls[p] = MAX_RETRIES
  /\ pc[p] = "done" /\ last_reply[p] = <<>> =>
       gen[p] = [kind |-> "raised", text |-> "",
                 error |-> "Gemini client not initialized. Please check your API key."]
  /\ pc[p] = "done" => result[p] = OutcomeOf(op[p], request[p], gen[p])

\* C21: under every interleaving of concurrent calls, each call's attempt
\* counter, enriched request, outcome and result are those of a lone call
\* that received the same replies, and no step of a call changes api_key or
\* model.
C21_CallsShareNoMutableState ==
  /\ [](\A p \in Callers : OwnStateOnly(p))
  /\ [][api_key' = api_key /\ model' = model]_vars

\* Two calls are in progress at once with different attempt counters: a
\* review sleeps after its second failure while a hint call has just
\* entered its loop.
C21_Witness ==
  /\ pc[1] = "sleep" /\ attempt[1] = 1
  /\ pc[2] = "attempt" /\ attempt[2] = 0 /\ calls[2] = 0
  /\ op[1] = "review" /\ op[2] = "hint"

\* generate_response has ended in one of its two outcomes: the trimmed text
\* of the latest reply, or the terminal failure after the last attempt.
SuccessOrExhaustion ==
  \/ /\ gen.kind = "returned"
     /\ last_reply.kind = "text"
     /\ gen.text = Strip(last_reply.text)
     /\ calls \in 1..MAX_RETRIES
  \/ /\ gen.kind = "raised"
     /\ last_reply.kind # "text" \/ last_reply.text = ""
     /\ calls = MAX_RETRIES
     /\ StartsWith(gen.error, "Failed to generate response after 3 attempts: ")

\* C22: every generate_response call on an initialized client eventually
\* ends, the retry sequence is never left midway, and it ends either with
\* the returned text or with the terminal failure after the last attempt.
C22_GenerationTerminates ==
  /\ (op = "generate" /\ pc = "gen_enter" /\ model) ~> (pc = "gen_done")
  /\ [](pc # "fell_through")
  /\ []((op = "generate" /\ pc = "gen_done" /\ model) => SuccessOrExhaustion)

\* A direct call ended with the terminal failure after three replies
\* without a text.
C22_Witness ==
  /\ op = "generate" /\ pc = "gen_done" /\ model
  /\ gen.kind = "raised" /\ calls = MAX_RETRIES /\ delays = <<1, 2>>
  /\ last_reply.kind = "none"

\* C30 (as claimed): the client is initialized only if the current API key
\* is non-empty, and a call made while the key is empty fails at once as
\* uninitialized without invoking the service.
C30_InitializedOnlyWithKey ==
  /\ model => api_key # ""
  /\ (op = "generate" /\ pc = "gen_done" /\ api_key = "") =>
       /\ gen.kind = "raised"
       /\ gen.error = "Gemini client not initialized. Please check your API key."
       /\ calls = 0

\* The position at which part starts in text (0 when it does not occur).
PositionOf(text, part) == Find(text, part, 0)

\* The strings of parts come one after the other in text, without
\* overlapping.
RECURSIVE InOrder(_, _)
InOrder(text, parts) ==
  IF parts = <<>> THEN TRUE
  ELSE /\ PositionOf(text, Head(parts)) > 0
       /\ InOrder(Suffix(text, PositionOf(text, Head(parts)) + Len(Head(parts))),
                  Tail(parts))

\* The entries of the history that are passed on: the last three, each as a
\* previous turn.
PreviousTurns(history) ==
  [i \in 1..(IF Len(history) > 3 THEN 3 ELSE Len(history)) |->
     "Previous: " \o history[Len(history) - (IF Len(history) > 3 THEN 3 ELSE Len(history)) + i]]

\* C23: the enriched request starts with the fixed guidance, followed by
\* the instruction; after it come, only for the parts that are present and
\* in this order, the last three history entries as previous turns in
\* their order, the one-line skill-level/goal summary and the one-line
\* title/difficulty summary; an absent part adds nothing, and the context
\* is left as it was.
C23_EnrichmentOrder ==
  (op = "enhance" /\ pc = "done") =>
    \A history \in {DictGet(request.context, "conversation_history")} :
    \A profile \in {DictGet(request.context, "user_profile")} :
    \A problem \in {DictGet(request.context, "current_problem")} :
    \A text \in {result.value} :
      /\ StartsWith(text, SystemContext \o "\n\nUser Request: " \o request.prompt)
      /\ InOrder(text,
           <<SystemContext, "User Request: " \o request.prompt>>
             \o (IF history # <<>> THEN <<"Conversation History:">> ELSE <<>>)
             \o PreviousTurns(history)
             \o (IF profile # <<>> THEN <<"User Profile: Skill Level: ", ", Goal: ">> ELSE <<>>)
             \o (IF problem # <<>> THEN <<"Current Problem Context: ", " difficulty">> ELSE <<>>))
      /\ Occurrences(text, "Previous: ") = Len(PreviousTurns(history))
      /\ Occurrences(text, "Conversation History:") = (IF history # <<>> THEN 1 ELSE 0)
      /\ Occurrences(text, "User Profile:") = (IF profile # <<>> THEN 1 ELSE 0)
      /\ Occurrences(text, "Current Problem Context:") = (IF problem # <<>> THEN 1 ELSE 0)
      /\ Len(text) = Len(SystemContext) + Len("\n\nUser Request: ") + Len(request.prompt)
           + (IF history # <<>>
              THEN Len("\n\nConversation History:\n") + Len(JoinLines(PreviousTurns(history)))
              ELSE 0)
           + (IF profile # <<>>
              THEN Len("\n\nUser Profile: Skill Level: , Goal: ")
                     + Len(DictGetOr(profile, "skill_level", "Unknown"))
                     + Len(DictGetOr(profile, "target_goal", "Unknown"))
              ELSE 0)
           + (IF problem # <<>>
              THEN Len("\n\nCurrent Problem Context:  -  difficulty")
                     + Len(DictGetOr(problem, "title", "N/A"))
                     + Len(DictGetOr(problem, "difficulty", "Unknown"))
              ELSE 0)
      /\ result.context = request.context

\* A prompt was enriched with a history of four entries, a profile and a
\* problem: the first entry of the history is left out.
C23_Witness ==
  /\ op = "enhance" /\ pc = "done"
  /\ request.prompt = "Explain heaps"
  /\ DictGet(request.context, "conversation_history") = <<"q1", "q2", "q2", "q2">>
  /\ DictGet(request.context, "user_profile") = [skill_level |-> "Beginner"]
  /\ DictGet(request.context, "current_problem") = [title |-> "Two Sum"]
  /\ Occurrences(result.value, "Previous: q1") = 0
  /\ Occurrences(result.value, "Previous: q2") = 3

\* The first header line of the lines (0 for none).
FirstHeader(lines) ==
  LET hs == {h \in 1..Len(lines) : HeaderOf(Strip(lines[h])) # ""}
  IN IF hs = {} THEN 0 ELSE CHOOSE h \in hs : \A g \in hs : h <= g

\* C24: the text before the first section header never reaches
\* extraction: the parsed review is the review of the text from its first
\* header on (the initial review when there is no header), so no line of
\* the preamble sets a score, a complexity, the summary or a list item.
C24_PreambleDropped ==
  ReviewParsed =>
    \A lines \in {Split(gen.text, "\n")} :
      \A h \in {FirstHeader(lines)} :
        /\ h = 0 => result.value = DefaultSections
        /\ h > 1 =>
             result.value = ParseReviewResponse(JoinLines(SubSeq(lines, h, Len(lines))))
        /\ gen.text = "Correctness: 8\n1. OVERALL ANALYSIS:\nTime Complexity: O(n^2)" =>
             /\ result.value.overall.correctness_score = 7
             /\ result.value.overall.time_complexity = "O(n^2)"
             /\ result.value.overall.summary = "Time Complexity: O(n^2)"
        /\ gen.text = "- Off by one\nCorrectness: 8\nIssues Found" =>
             result.value = DefaultSections

\* A score line came before the overall header and did not set the score.
C24_Witness ==
  /\ ReviewParsed
  /\ gen.text = "Correctness: 8\n1. OVERALL ANALYSIS:\nTime Complexity: O(n^2)"
  /\ result.value.overall.correctness_score = 7
  /\ result.value.overall.summary = "Time Complexity: O(n^2)"

SectionNames == {"overall", "issues", "optimizations", "alternatives"}

\* The section each line is the header of.
Headers(lines) == [k \in 1..Len(lines) |-> HeaderOf(Strip(lines[k]))]

\* The last header line at or before line k (0 for none), from the headers.
LatestHeader(hs, k) ==
  LET before == {h \in 1..k : hs[h] # ""}
  IN IF before = {} THEN 0 ELSE CHOOSE h \in before : \A g \in before : g <= h

\* The lines after which a block of section s ends: the block runs from
\* the line after the latest header, which is a header of s, to a line
\* that is the last one or comes before a header, and has a non-blank line.
BlockEnds(lines, hs, s) ==
  {k \in 1..Len(lines) :
     /\ k = Len(lines) \/ hs[k + 1] # ""
     /\ \A h \in {LatestHeader(hs, k)} :
          /\ h > 0
          /\ hs[h] = s
          /\ StrippedLines(SubSeq(lines, h + 1, k)) # <<>>}

\* The last of the ends of the blocks (0 for none).
LastOf(ends) == IF ends = {} THEN 0 ELSE CHOOSE e \in ends : \A f \in ends : f <= e

\* C25: the review holds, for each section, what was extracted from its
\* latest block with lines in it: the trimmed non-blank lines between the
\* header that opened it and the next header or the end of the text, in
\* order; a section with no such block keeps its initial value.
C25_SectionsCommittedInScanOrder ==
  ReviewParsed =>
    \A lines \in {Split(gen.text, "\n")} :
      \A hs \in {Headers(lines)} :
        \A s \in SectionNames :
          \A e \in {LastOf(BlockEnds(lines, hs, s))} :
            IF e = 0
            THEN result.value[s] = DefaultSections[s]
            ELSE result.value[s]
                   = ProcessSectionContent(
                       s, StrippedLines(SubSeq(lines, LatestHeader(hs, e) + 1, e)))

\* Two sections were stored one after the other, each with its own lines.
C25_Witness ==
  /\ ReviewParsed
  /\ gen.text = "1. OVERALL ANALYSIS:\nCorrectness: 8\nIssues Found\n- Off by one"
  /\ BlockEnds(Split(gen.text, "\n"), Headers(Split(gen.text, "\n")), "overall") = {2}
  /\ BlockEnds(Split(gen.text, "\n"), Headers(Split(gen.text, "\n")), "issues") = {4}
  /\ result.value.overall.summary = "Correctness: 8"
  /\ result.value.issues = <<"Off by one">>

\* The word every header of a section contains.
SectionKeyword(s) ==
  CASE s = "overall" -> "overall"
    [] s = "issues" -> "issues"
    [] s = "optimizations" -> "optimization"
    [] s = "alternatives" -> "alternative"

NumericMarkers == {"1.", "2.", "3.", "4."}

\* A line with a numeric marker and the keyword of no section.
MarkerOnly(line) ==
  /\ \E m \in NumericMarkers : Contains(line, m)
  /\ \A low \in {Lower(line)} :
       \A s \in SectionNames : ~Contains(low, SectionKeyword(s))

\* C26: a line is a header of a section only if it contains the section's
\* keyword in any case; a line with a numeric marker and no keyword opens
\* no section: with no section open the review is that of the response
\* without the line, and in an open section the trimmed line is part of
\* the lines the section is extracted from.
C26_MarkerAloneOpensNoSection ==
  ReviewParsed =>
    \A lines \in {Split(gen.text, "\n")} :
      \A hs \in {Headers(lines)} :
        \A k \in 1..Len(lines) :
          /\ hs[k] # "" => Contains(Lower(lines[k]), SectionKeyword(hs[k]))
          /\ MarkerOnly(lines[k]) =>
               \A h \in {LatestHeader(hs, k)} :
                 /\ hs[k] = ""
                 /\ h = 0 =>
                      result.value = ParseReviewResponse(JoinLines(RemoveAt(lines, k)))
                 /\ h > 0 =>
                      \A e \in {LastOf(BlockEnds(lines, hs, hs[h]))} :
                        k <= e =>
                          result.value[hs[h]]
                            = ProcessSectionContent(
                                hs[h], StrippedLines(SubSeq(lines, h + 1, k - 1))
                                         \o <<Strip(lines[k])>>
                                         \o StrippedLines(SubSeq(lines, k + 1, e)))

\* A numbered line before the first header was dropped and one after it
\* became an item of the section.
C26_Witness ==
  /\ ReviewParsed
  /\ gen.text = "2. Rename\nIssues Found\n1. Check bounds"
  /\ MarkerOnly("2. Rename") /\ MarkerOnly("1. Check bounds")
  /\ result.value.issues = <<"Check bounds">>
  /\ result.value.overall = DefaultSections.overall

ListSections == {"issues", "optimizations", "alternatives"}

\* A line that starts an item, without its marker and the whitespace
\* after it: the marker is one bullet character or the digits up to the
\* first period.
MarkerStripped(line) ==
  IF line # "" /\ CharAt(line, 1) \in {"-", Bullet, "*"}
  THEN LStrip(Suffix(line, 2))
  ELSE LStrip(Suffix(line, Find(line, ".", 0) + 1))

\* C27: a list section of one line that starts with a bullet or with a
\* digit and a period holds one item, the line without the marker and the
\* whitespace after it, the rest unchanged.
C27_OnlyMarkerStripped ==
  ReviewParsed =>
    \A lines \in {Split(gen.text, "\n")} :
      \A hs \in {Headers(lines)} :
        \A s \in ListSections :
          \A e \in {LastOf(BlockEnds(lines, hs, s))} :
            (e > 0 /\ LatestHeader(hs, e) = e - 1 /\ StartsItem(Strip(lines[e]))) =>
              result.value[s] = NonEmptyItems(<<MarkerStripped(Strip(lines[e]))>>)

ProblemsParsed == op = "problems" /\ pc = "done" /\ gen.kind = "returned"

\* The labels of the fields of a problem and the field each one sets.
FieldLabels ==
  {"title", "difficulty", "statement", "description", "core concept", "concept",
   "context", "estimated time", "time", "complexity", "hint", "approach hint"}

FieldOf(label) ==
  CASE label = "title" -> "title"
    [] label = "difficulty" -> "difficulty"
    [] label \in {"statement", "description"} -> "statement"
    [] label \in {"core concept", "concept"} -> "core_concept"
    [] label = "context" -> "context"
    [] label \in {"estimated time", "time"} -> "estimated_time"
    [] label = "complexity" -> "complexity"
    [] label \in {"hint", "approach hint"} -> "approach_hint"

\* The line starts, in any case, with the label and a colon, with or
\* without a dash before it.
HasLabel(line, label) ==
  StartsWithAny(Lower(line), {label \o ":", "- " \o label \o ":"})

Labelled(line) == \E label \in FieldLabels : HasLabel(line, label)

\* What a field holds once a line with its label gave it the text v.
FieldValue(field, v) ==
  IF field = "difficulty" THEN ParseDifficulty(Lower(v))
  ELSE IF field = "approach_hint" THEN <<v>>
  ELSE v

\* The lines of the only block of the text, trimmed, without blank ones.
OnlyBlock(text) ==
  LET sections == Split(text, "Problem")
  IN IF Len(sections) = 2 THEN StrippedLines(Split(sections[2], "\n")) ELSE <<>>

\* The original reading of C28: in a block of a statement line and one line
\* without a label, the line is joined to the statement with a space,
\* whatever its first character; after a line of another field it is not
\* added to the statement, which gets the placeholder.
C28_StatementContinuation ==
  ProblemsParsed =>
    \A lines \in {OnlyBlock(gen.text)} :
      (Len(lines) = 2 /\ Labelled(lines[1]) /\ ~Labelled(lines[2])) =>
        IF \E label \in {"statement", "description"} : HasLabel(lines[1], label)
        THEN result.value[1].statement
               = Strip(AfterColon(lines[1])) \o " " \o lines[2]
        ELSE result.value[1].statement
               = Placeholder(1, result.value[1].core_concept)

\* The field a line opens ("" when the line has no recognized label).
FieldOpenedBy(line) == ProblemLine(ProblemDefaults(1), line).current_field

\* The statement v after the lines that follow it, none of them labelled.
RECURSIVE Continued(_, _)
Continued(v, rest) ==
  IF rest = <<>> THEN v
  ELSE Continued(IF StartsWith(Head(rest), "-") THEN v ELSE v \o " " \o Head(rest),
                 Tail(rest))

\* C28: in a block of a labelled line followed by lines without a label,
\* the lines after a statement line are joined to the statement with
\* spaces, in order, except those that start with a dash, which are
\* skipped; after a line of another field nothing is added to the
\* statement, which gets the placeholder.
C28_ContinuationUnlessDash ==
  ProblemsParsed =>
    \A lines \in {OnlyBlock(gen.text)} :
      ( /\ Len(lines) >= 2
        /\ FieldOpenedBy(lines[1]) # ""
        /\ \A k \in 2..Len(lines) : FieldOpenedBy(lines[k]) = "" ) =>
        IF FieldOpenedBy(lines[1]) = "statement"
        THEN result.value[1].statement
               = StatementOrPlaceholder(
                   Continued(Strip(AfterColon(lines[1])), Tail(lines)),
                   1, result.value[1].core_concept)
        ELSE result.value[1].statement
               = Placeholder(1, result.value[1].core_concept)

\* A line that starts with a dash came after the statement and was skipped.
C28_Witness ==
  /\ ProblemsParsed
  /\ gen.text = "Problem\nStatement: Do Y\n- in O(n)"
  /\ result.source = "parsed"
  /\ result.value[1].statement = "Do Y"

\* C29: in a block of one line that has a label, with or without a dash
\* before it, the label's field holds the text after the first colon; a
\* block with no line for difficulty, complexity or estimated time has
\* Medium, "O(n)" and "15-20 min" there.
C29_LabelsWithAndWithoutDash ==
  ProblemsParsed =>
    \A lines \in {OnlyBlock(gen.text)} :
      /\ Len(lines) = 1 =>
           \A label \in FieldLabels :
             (HasLabel(lines[1], label) /\ Strip(AfterColon(lines[1])) # "") =>
               result.value[1][FieldOf(label)]
                 = FieldValue(FieldOf(label), Strip(AfterColon(lines[1])))
      /\ (lines # <<>> /\ \A k \in 1..Len(lines) : ~Labelled(lines[k])) =>
           /\ result.value[1].difficulty = "Medium"
           /\ result.value[1].complexity = "O(n)"
           /\ result.value[1].estimated_time = "15-20 min"

====
